---- MODULE Spec2Model ----
(***************************************************************************)
(* A model of src/hooks/useAuth.tsx: the AuthProvider component, its three *)
(* pieces of React state, the effect that fetches the current user and     *)
(* subscribes to auth state changes, the signIn / signOut delegates, and  *)
(* the useAuth hook.                                                       *)
(*                                                                         *)
(* Text that the code takes apart (email, full name) is a sequence of      *)
(* one-character strings; text that it only compares or copies is a        *)
(* string.  A JavaScript value that may be null/undefined is None or       *)
(* Some(v).                                                                *)
(***************************************************************************)
EXTENDS Naturals, Sequences, FiniteSets

VARIABLES
    phase,          \* "rendered" (first render done, effect not run), "mounted", "unmounted"
    user,           \* useState<User | null>
    supabaseUser,   \* useState<SupabaseUser | null>
    isLoading,      \* useState(true)
    value,          \* the context value of the latest render
    fetch,          \* the auth.getCurrentUser() promise: "none", "pending", "resolved", "rejected"
    subs,           \* listeners this component has registered with the provider and not released
    released,       \* calls of subscription.unsubscribe()
    pendingSignIn,  \* signIn calls awaiting auth.signIn
    pendingSignOut, \* signOut calls awaiting auth.signOut
    signInCalls,    \* signIn calls started
    signOutCalls,   \* signOut calls started
    providerSignIns,\* auth.signIn calls made
    emitted,        \* change events the provider has emitted
    sinceSignOut,   \* "quiet": a signOut has finished and no report has carried a
                    \* session since; "fetched": since then the startup fetch
                    \* alone has carried one; "no" otherwise
    last            \* the step taken last, with its input and its result

vars == <<phase, user, supabaseUser, isLoading, value, fetch, subs, released,
          pendingSignIn, pendingSignOut, signInCalls, signOutCalls,
          providerSignIns, emitted, sinceSignOut, last>>

-----------------------------------------------------------------------------
(* Bounds of the exploration *)

MaxCalls == 2

MaxEvents == 2

-----------------------------------------------------------------------------
(* JavaScript values *)

None == [some |-> FALSE]

Some(v) == [some |-> TRUE, v |-> v]

\* x || d for a string-valued x: d when x is null, undefined or ''
OrText(x, d) == IF x.some /\ x.v # <<>> THEN x.v ELSE d

\* x || d for a string-valued x held as a string
OrString(x, d) == IF x.some /\ x.v # "" THEN x.v ELSE d

\* x || d for an array-valued x: every array is truthy
OrArray(x, d) == IF x.some THEN x.v ELSE d

\* s.split('@')[0]: the text before the first '@', all of s when it has none
SplitAt0(s) ==
    IF \E i \in 1..Len(s) : s[i] = "@"
    THEN SubSeq(s, 1, (CHOOSE i \in 1..Len(s) :
                          s[i] = "@" /\ \A j \in 1..(i - 1) : s[j] # "@") - 1)
    ELSE s

-----------------------------------------------------------------------------
(* What the auth provider can hand to the component *)

EmailA == <<"a", "@", "x", ".", "c", "o", "m">>

EmailNoAt == <<"b", "o", "b">>

NameAnn == <<"A", "n", "n">>

\* {} : a metadata object with no field set
EmptyMetadata ==
    Some([full_name |-> None, company_name |-> None, role |-> None,
          permissions |-> None])

MetadataOf(f, c, r, p) ==
    Some([full_name |-> f, company_name |-> c, role |-> r, permissions |-> p])

ProviderUser(i, e, m) == [id |-> i, email |-> e, user_metadata |-> m]

\* The provider users of the exploration: every field absent and present, the
\* full name empty, the role in another letter case, the email without '@',
\* a metadata field the mapping does not read.
ProviderUsers ==
    {ProviderUser("u1", Some(EmailA), EmptyMetadata),
     ProviderUser("u1", Some(EmailA), None),
     ProviderUser("u2", Some(EmailA),
                  MetadataOf(Some(NameAnn), Some("Acme"), Some("Admin"),
                             Some(<<"read">>))),
     ProviderUser("u2", Some(EmailA),
                  MetadataOf(Some(<<>>), None, Some("admin"), None)),
     ProviderUser("u1", Some(EmailNoAt),
                  MetadataOf(None, Some("Acme"), Some("Member"), None)),
     ProviderUser("u2", None,
                  MetadataOf(None, None, Some("Admin"), Some(<<"read">>))),
     ProviderUser("u1", None,
                  MetadataOf(Some(NameAnn), None, None, None)),
     ProviderUser("u2", Some(EmailNoAt),
                  Some([full_name |-> None, company_name |-> None,
                        role |-> None, permissions |-> None,
                        password |-> "hunter2"]))}

\* data.user of getCurrentUser, session?.user of a change event
Sessions == {None} \cup {Some(u) : u \in ProviderUsers}

\* the error member of auth.signIn's answer; None is null
SignInErrors == {None, Some("Invalid login credentials")}

\* user.user_metadata?.f
Meta(u, f) == IF u.user_metadata.some THEN u.user_metadata.v[f] ELSE None

-----------------------------------------------------------------------------
(* The mapping from provider user to application user, once per path *)

\* the fetch mapping with the role test made on the presence of a role
AppUserFromFetchAnyRole(u) ==
    [id          |-> u.id,
     email       |-> OrText(u.email, <<>>),
     password    |-> "",
     fullName    |-> OrText(Meta(u, "full_name"),
                        OrText(IF u.email.some THEN Some(SplitAt0(u.email.v))
                                               ELSE None,
                               <<>>)),
     companyName |-> OrString(Meta(u, "company_name"), ""),
     role        |-> IF Meta(u, "role").some THEN "Admin" ELSE "Member",
     permissions |-> OrArray(Meta(u, "permissions"), <<>>)]

\* the fetch mapping with the password copied from the metadata
AppUserFromFetchPassword(u) ==
    [id          |-> u.id,
     email       |-> OrText(u.email, <<>>),
     password    |-> IF /\ u.user_metadata.some
                        /\ "password" \in DOMAIN u.user_metadata.v
                     THEN u.user_metadata.v.password
                     ELSE "",
     fullName    |-> OrText(Meta(u, "full_name"),
                        OrText(IF u.email.some THEN Some(SplitAt0(u.email.v))
                                               ELSE None,
                               <<>>)),
     companyName |-> OrString(Meta(u, "company_name"), ""),
     role        |-> IF Meta(u, "role") = Some("Admin") THEN "Admin" ELSE "Member",
     permissions |-> OrArray(Meta(u, "permissions"), <<>>)]

\* the appUser literal of the getCurrentUser callback
AppUserFromFetch(u) ==
    [id          |-> u.id,
     email       |-> OrText(u.email, <<>>),
     password    |-> "",
     fullName    |-> OrText(Meta(u, "full_name"),
                        OrText(IF u.email.some THEN Some(SplitAt0(u.email.v))
                                               ELSE None,
                               <<>>)),
     companyName |-> OrString(Meta(u, "company_name"), ""),
     role        |-> IF Meta(u, "role") = Some("Admin") THEN "Admin" ELSE "Member",
     permissions |-> OrArray(Meta(u, "permissions"), <<>>)]

\* the listener mapping with ?? in place of || for the full name: an empty
\* full name is kept
AppUserFromEventNullish(u) ==
    [id          |-> u.id,
     email       |-> OrText(u.email, <<>>),
     password    |-> "",
     fullName    |-> IF Meta(u, "full_name").some
                     THEN Meta(u, "full_name").v
                     ELSE OrText(IF u.email.some THEN Some(SplitAt0(u.email.v))
                                                 ELSE None,
                                 <<>>),
     companyName |-> OrString(Meta(u, "company_name"), ""),
     role        |-> IF Meta(u, "role") = Some("Admin") THEN "Admin" ELSE "Member",
     permissions |-> OrArray(Meta(u, "permissions"), <<>>)]

\* the listener mapping having drifted from the fetch mapping: no company name
AppUserFromEventNoCompany(u) ==
    [id          |-> u.id,
     email       |-> OrText(u.email, <<>>),
     password    |-> "",
     fullName    |-> OrText(Meta(u, "full_name"),
                        OrText(IF u.email.some THEN Some(SplitAt0(u.email.v))
                                               ELSE None,
                               <<>>)),
     companyName |-> "",
     role        |-> IF Meta(u, "role") = Some("Admin") THEN "Admin" ELSE "Member",
     permissions |-> OrArray(Meta(u, "permissions"), <<>>)]

\* the appUser literal of the onAuthStateChange callback
AppUserFromEvent(u) ==
    [id          |-> u.id,
     email       |-> OrText(u.email, <<>>),
     password    |-> "",
     fullName    |-> OrText(Meta(u, "full_name"),
                        OrText(IF u.email.some THEN Some(SplitAt0(u.email.v))
                                               ELSE None,
                               <<>>)),
     companyName |-> OrString(Meta(u, "company_name"), ""),
     role        |-> IF Meta(u, "role") = Some("Admin") THEN "Admin" ELSE "Member",
     permissions |-> OrArray(Meta(u, "permissions"), <<>>)]

\* the context value with isAuthenticated taken from the provider user
ContextValueFromProviderUser(u, su, l) ==
    [user |-> u, supabaseUser |-> su, isAuthenticated |-> su.some, isLoading |-> l]

\* the value object handed to AuthContext.Provider (signIn and signOut are
\* the actions below)
ContextValue(u, su, l) ==
    [user |-> u, supabaseUser |-> su, isAuthenticated |-> u.some, isLoading |-> l]

-----------------------------------------------------------------------------
(* State updates *)

\* the setters of a store that outlives the component: updates are applied
\* after unmount too
CommitAfterUnmount(u, su, l) ==
    /\ user' = u
    /\ supabaseUser' = su
    /\ isLoading' = l
    /\ value' = ContextValue(u, su, l)

\* setUser(u), setSupabaseUser(su), setIsLoading(l) in one handler, and the
\* render that follows.  React drops the updates of a component that has
\* been unmounted.
Commit(u, su, l) ==
    IF phase = "mounted"
    THEN /\ user' = u
         /\ supabaseUser' = su
         /\ isLoading' = l
         /\ value' = ContextValue(u, su, l)
    ELSE UNCHANGED <<user, supabaseUser, isLoading, value>>

\* signIn's return value
SignInResult(e) == [error |-> e]

\* The record of a step: the operation, the session or the provider's error
\* member it was given, what it returned to its caller, whether the
\* component's handler ran, and whether a user was present when it began.
Step(op, session, error, ret, ran) ==
    [op |-> op, session |-> session, error |-> error, ret |-> ret,
     ran |-> ran, had |-> user.some]

\* the provider calls the listeners registered with it and not released
Delivers == subs > 0

Init ==
    /\ phase = "rendered"
    /\ user = None
    /\ supabaseUser = None
    /\ isLoading = TRUE
    /\ value = ContextValue(None, None, TRUE)
    /\ fetch = "none"
    /\ subs = 0
    /\ released = 0
    /\ pendingSignIn = 0
    /\ pendingSignOut = 0
    /\ signInCalls = 0
    /\ signOutCalls = 0
    /\ providerSignIns = 0
    /\ emitted = 0
    /\ sinceSignOut = "no"
    /\ last = Step("render", None, None, None, FALSE)

\* useEffect(() => {...}, []): issue the fetch, register the listener
Mount ==
    /\ phase = "rendered"
    /\ phase' = "mounted"
    /\ fetch' = "pending"
    /\ subs' = subs + 1
    /\ last' = Step("mount", None, None, None, TRUE)
    /\ UNCHANGED <<user, supabaseUser, isLoading, value, released, pendingSignIn,
                   pendingSignOut, signInCalls, signOutCalls, providerSignIns,
                   emitted,
                   sinceSignOut>>

\* auth.getCurrentUser().then(({ data: { user } }) => {...})
FetchResolve(s) ==
    /\ fetch = "pending"
    /\ fetch' = "resolved"
    /\ Commit(IF s.some THEN Some(AppUserFromFetch(s.v)) ELSE user, s, FALSE)
    /\ sinceSignOut' = IF phase = "mounted" /\ s.some /\ sinceSignOut = "quiet"
                       THEN "fetched" ELSE sinceSignOut
    /\ last' = Step("fetch", s, None, None, TRUE)
    /\ UNCHANGED <<phase, subs, released, pendingSignIn, pendingSignOut,
                   signInCalls, signOutCalls, providerSignIns, emitted>>

\* auth.getCurrentUser() rejects: the then-callback never runs
FetchReject ==
    /\ fetch = "pending"
    /\ fetch' = "rejected"
    /\ last' = Step("fetchReject", None, None, None, FALSE)
    /\ UNCHANGED <<phase, user, supabaseUser, isLoading, value, subs, released,
                   pendingSignIn, pendingSignOut, signInCalls, signOutCalls,
                   providerSignIns, emitted,
                   sinceSignOut>>

\* the listener without its setIsLoading(false)
ListenerKeepsLoading(s) ==
    IF s.some
    THEN Commit(Some(AppUserFromEvent(s.v)), s, isLoading)
    ELSE Commit(None, None, isLoading)

\* the callback given to auth.onAuthStateChange
Listener(s) ==
    IF s.some
    THEN Commit(Some(AppUserFromEvent(s.v)), s, FALSE)
    ELSE Commit(None, None, FALSE)

\* the provider emits a change event; it calls the listeners registered
\* with it and not released
ProviderEmit(s) ==
    /\ phase # "rendered"
    /\ emitted < MaxEvents
    /\ emitted' = emitted + 1
    /\ IF Delivers
       THEN Listener(s)
       ELSE UNCHANGED <<user, supabaseUser, isLoading, value>>
    /\ sinceSignOut' = IF Delivers /\ phase = "mounted" /\ s.some
                       THEN "no" ELSE sinceSignOut
    /\ last' = Step("emit", s, None, None, Delivers)
    /\ UNCHANGED <<phase, fetch, subs, released, pendingSignIn, pendingSignOut,
                   signInCalls, signOutCalls, providerSignIns>>

\* the effect without its cleanup: the listener stays registered
UnmountKeepsSubscription ==
    /\ phase = "mounted"
    /\ phase' = "unmounted"
    /\ last' = Step("unmount", None, None, None, TRUE)
    /\ UNCHANGED <<user, supabaseUser, isLoading, value, fetch, subs, released,
                   pendingSignIn, pendingSignOut, signInCalls, signOutCalls,
                   providerSignIns, emitted,
                   sinceSignOut>>

\* return () => subscription.unsubscribe()
Unmount ==
    /\ phase = "mounted"
    /\ phase' = "unmounted"
    /\ subs' = subs - 1
    /\ released' = released + 1
    /\ last' = Step("unmount", None, None, None, TRUE)
    /\ UNCHANGED <<user, supabaseUser, isLoading, value, fetch, pendingSignIn,
                   pendingSignOut, signInCalls, signOutCalls, providerSignIns,
                   emitted,
                   sinceSignOut>>

\* signIn up to its await: setIsLoading(true); auth.signIn(email, password)
SignInStart ==
    /\ phase = "mounted"
    /\ signInCalls + signOutCalls < MaxCalls
    /\ signInCalls' = signInCalls + 1
    /\ providerSignIns' = providerSignIns + 1
    /\ pendingSignIn' = pendingSignIn + 1
    /\ Commit(user, supabaseUser, TRUE)
    /\ last' = Step("signInStart", None, None, None, TRUE)
    /\ UNCHANGED <<phase, fetch, subs, released, pendingSignOut, signOutCalls,
                   emitted,
                   sinceSignOut>>

\* signIn dropping the user when auth.signIn answers with an error
SignInResolveClearsOnError(e) ==
    /\ pendingSignIn > 0
    /\ pendingSignIn' = pendingSignIn - 1
    /\ IF e = None
       THEN Commit(user, supabaseUser, FALSE)
       ELSE Commit(None, None, FALSE)
    /\ last' = Step("signInReturn", None, e, Some(SignInResult(e)), TRUE)
    /\ UNCHANGED <<phase, fetch, subs, released, pendingSignOut, signInCalls,
                   signOutCalls, providerSignIns, emitted, sinceSignOut>>

\* auth.signIn answers { error }: setIsLoading(false); return { error }
SignInResolve(e) ==
    /\ pendingSignIn > 0
    /\ pendingSignIn' = pendingSignIn - 1
    /\ Commit(user, supabaseUser, FALSE)
    /\ last' = Step("signInReturn", None, e, Some(SignInResult(e)), TRUE)
    /\ UNCHANGED <<phase, fetch, subs, released, pendingSignOut, signInCalls,
                   signOutCalls, providerSignIns, emitted,
                   sinceSignOut>>

\* auth.signIn rejects: the await throws and signIn's promise rejects
SignInReject ==
    /\ pendingSignIn > 0
    /\ pendingSignIn' = pendingSignIn - 1
    /\ last' = Step("signInThrow", None, None, None, FALSE)
    /\ UNCHANGED <<phase, user, supabaseUser, isLoading, value, fetch, subs,
                   released, pendingSignOut, signInCalls, signOutCalls,
                   providerSignIns, emitted,
                   sinceSignOut>>

\* signOut up to its await: setIsLoading(true); auth.signOut()
SignOutStart ==
    /\ phase = "mounted"
    /\ signInCalls + signOutCalls < MaxCalls
    /\ signOutCalls' = signOutCalls + 1
    /\ pendingSignOut' = pendingSignOut + 1
    /\ Commit(user, supabaseUser, TRUE)
    /\ last' = Step("signOutStart", None, None, None, TRUE)
    /\ UNCHANGED <<phase, fetch, subs, released, pendingSignIn, signInCalls,
                   providerSignIns, emitted,
                   sinceSignOut>>

\* signOut clearing the state only when auth.signOut answered without error
SignOutResolveOnSuccess(e) ==
    /\ pendingSignOut > 0
    /\ pendingSignOut' = pendingSignOut - 1
    /\ IF e = None
       THEN Commit(None, None, FALSE)
       ELSE Commit(user, supabaseUser, FALSE)
    /\ sinceSignOut' = IF phase = "mounted" THEN "quiet" ELSE sinceSignOut
    /\ last' = Step("signOutReturn", None, e, None, TRUE)
    /\ UNCHANGED <<phase, fetch, subs, released, pendingSignIn, signInCalls,
                   signOutCalls, providerSignIns, emitted>>

\* auth.signOut answers (with an error member e, which signOut does not
\* read): setUser(null); setSupabaseUser(null); setIsLoading(false)
SignOutResolve(e) ==
    /\ pendingSignOut > 0
    /\ pendingSignOut' = pendingSignOut - 1
    /\ Commit(None, None, FALSE)
    /\ sinceSignOut' = IF phase = "mounted" THEN "quiet" ELSE sinceSignOut
    /\ last' = Step("signOutReturn", None, e, None, TRUE)
    /\ UNCHANGED <<phase, fetch, subs, released, pendingSignIn, signInCalls,
                   signOutCalls, providerSignIns, emitted>>

\* auth.signOut rejects: the await throws and signOut's promise rejects
SignOutReject ==
    /\ pendingSignOut > 0
    /\ pendingSignOut' = pendingSignOut - 1
    /\ last' = Step("signOutThrow", None, None, None, FALSE)
    /\ UNCHANGED <<phase, user, supabaseUser, isLoading, value, fetch, subs,
                   released, pendingSignIn, signInCalls, signOutCalls,
                   providerSignIns, emitted,
                   sinceSignOut>>

\* the default value given to createContext
DefaultContext ==
    [user |-> None, supabaseUser |-> None, isAuthenticated |-> FALSE,
     isLoading |-> TRUE]

\* useContext(AuthContext): the value of the enclosing AuthProvider, the
\* default value of the context when there is none
UseContext(inside) == IF inside THEN Some(value) ELSE Some(DefaultContext)

UseAuthMessage == "useAuth must be used within an AuthProvider"

\* useAuth() called by a component inside or outside an AuthProvider: it
\* throws when the context is null or undefined and returns it otherwise
UseAuth(inside) ==
    /\ inside => phase # "unmounted"
    /\ last' = IF ~UseContext(inside).some
               THEN Step(IF inside THEN "useAuthInside" ELSE "useAuthOutside",
                         None, Some(UseAuthMessage), None, TRUE)
               ELSE Step(IF inside THEN "useAuthInside" ELSE "useAuthOutside",
                         None, None, UseContext(inside), TRUE)
    /\ UNCHANGED <<phase, user, supabaseUser, isLoading, value, fetch, subs,
                   released, pendingSignIn, pendingSignOut, signInCalls,
                   signOutCalls, providerSignIns, emitted, sinceSignOut>>

Next ==
    \/ Mount
    \/ \E s \in Sessions : FetchResolve(s)
    \/ FetchReject
    \/ \E s \in Sessions : ProviderEmit(s)
    \/ Unmount
    \/ SignInStart
    \/ \E e \in SignInErrors : SignInResolve(e)
    \/ SignInReject
    \/ SignOutStart
    \/ \E e \in SignInErrors : SignOutResolve(e)
    \/ SignOutReject
    \/ \E inside \in BOOLEAN : UseAuth(inside)

Spec == Init /\ [][Next]_vars

-----------------------------------------------------------------------------
(* Reading the last step *)

\* the fetch callback or the listener has just run on a mounted component
ReportProcessed ==
    /\ last.op \in {"fetch", "emit"}
    /\ last.ran
    /\ phase = "mounted"

\* C1: whenever the provider reports no session, by the startup fetch or by
\* a change event, then right after the report is processed the application
\* user and the provider user are absent and isAuthenticated is false,
\* whatever the state was before.
C1_NoSessionClears ==
    (ReportProcessed /\ last.session = None)
        => (user = None /\ supabaseUser = None /\ ~value.isAuthenticated)

\* C2: when a signOut call of the mounted component finishes, the
\* application user and the provider user are absent and isAuthenticated is
\* false, whatever auth.signOut answered and whatever the state was when
\* signOut was called.
C2_SignOutClears ==
    (last.op = "signOutReturn" /\ phase = "mounted")
        => (user = None /\ supabaseUser = None /\ ~value.isAuthenticated)

\* a signOut whose provider call answered with an error has finished while a
\* user was present
C2_Witness ==
    /\ last.op = "signOutReturn"
    /\ phase = "mounted"
    /\ last.error # None
    /\ last.had
    /\ user = None

\* C3: every signIn call ends by returning { error } with the provider's
\* error member for that attempt; it never ends by throwing, and it makes
\* exactly one auth.signIn call.
C3_SignInReturnsError ==
    /\ last.op # "signInThrow"
    /\ last.op = "signInReturn" => last.ret = Some([error |-> last.error])
    /\ providerSignIns = signInCalls

\* C4: while a signIn or signOut call awaits its provider call, isLoading is
\* true, under every interleaving with the fetch, change events and other
\* calls.
C4_LoadingWhilePending ==
    (phase = "mounted" /\ pendingSignIn + pendingSignOut > 0)
        => (isLoading /\ value.isLoading)

\* C5: with no signIn or signOut call made, isLoading is true after mount
\* and until the startup fetch has resolved or a change event has been
\* delivered; on the mounted component it is false from the first of the
\* two on, and the second of the two leaves it false.
C5_LoadingUntilFirstCheck ==
    (signInCalls + signOutCalls = 0)
        => /\ (fetch # "resolved" /\ emitted = 0)
                => (isLoading /\ value.isLoading)
           /\ (phase = "mounted" /\ (fetch = "resolved" \/ emitted > 0))
                => (~isLoading /\ ~value.isLoading)

\* both checks have happened, the change event second, and no call was made
C5_Witness ==
    /\ signInCalls + signOutCalls = 0
    /\ phase = "mounted"
    /\ fetch = "resolved"
    /\ last.op = "emit"
    /\ ~isLoading

\* the metadata role of provider user u is exactly the string "Admin"
RoleIsExactlyAdmin(u) ==
    /\ u.user_metadata.some
    /\ u.user_metadata.v.role = Some("Admin")

\* C6: for every provider user delivered by the startup fetch or by a change
\* event, the mapped role is "Admin" if and only if the metadata role is
\* exactly "Admin", and "Member" for every other or absent role.
C6_RoleAdminIffExact ==
    (ReportProcessed /\ last.session # None)
        => /\ user # None
           /\ RoleIsExactlyAdmin(last.session.v) => user.v.role = "Admin"
           /\ ~RoleIsExactlyAdmin(last.session.v) => user.v.role = "Member"

\* the startup fetch has delivered a user whose role is "admin" in lower
\* case, mapped to "Member"
C6_Witness ==
    /\ ReportProcessed
    /\ last.op = "fetch"
    /\ last.session # None
    /\ last.session.v.user_metadata.some
    /\ last.session.v.user_metadata.v.role = Some("admin")
    /\ user.v.role = "Member"

\* t is the part of the text s that precedes its first "@" (all of s when
\* s holds no "@")
PrecedesAt(t, s) ==
    /\ Len(t) <= Len(s)
    /\ t = SubSeq(s, 1, Len(t))
    /\ \A i \in 1..Len(t) : t[i] # "@"
    /\ Len(t) < Len(s) => s[Len(t) + 1] = "@"

\* the metadata of provider user u has a full-name field
HasFullNameField(u) ==
    /\ u.user_metadata.some
    /\ u.user_metadata.v.full_name # None

\* C7 as stated: a provider user without a full-name field maps to the part
\* of the email before "@"; a provider user with a full-name field maps to
\* that field.
C7_FullNameAsStated ==
    (ReportProcessed /\ last.session # None)
        => /\ user # None
           /\ (~HasFullNameField(last.session.v) /\ last.session.v.email # None)
                => PrecedesAt(user.v.fullName, last.session.v.email.v)
           /\ HasFullNameField(last.session.v)
                => user.v.fullName = last.session.v.user_metadata.v.full_name.v

\* the metadata of provider user u has a full-name field that is not empty
HasFullName(u) ==
    /\ HasFullNameField(u)
    /\ u.user_metadata.v.full_name.v # <<>>

\* C7 amended: a provider user whose full name is absent or empty maps to
\* the part of the email before "@" (to the empty text when it has no email
\* either); a provider user with a full name that is not empty maps to it.
C7_FullName ==
    (ReportProcessed /\ last.session # None)
        => /\ user # None
           /\ (~HasFullName(last.session.v) /\ last.session.v.email # None)
                => PrecedesAt(user.v.fullName, last.session.v.email.v)
           /\ (~HasFullName(last.session.v) /\ last.session.v.email = None)
                => user.v.fullName = <<>>
           /\ HasFullName(last.session.v)
                => user.v.fullName = last.session.v.user_metadata.v.full_name.v

\* a change event has delivered a user with an empty full name and an
\* email, mapped to the email's part before "@"
C7_Witness ==
    /\ ReportProcessed
    /\ last.op = "emit"
    /\ last.session # None
    /\ HasFullNameField(last.session.v)
    /\ ~HasFullName(last.session.v)
    /\ last.session.v.email = Some(EmailA)
    /\ user.v.fullName = <<"a">>

\* the user of the example: {id:"u1", email:"a@x.com", metadata:{}}
ExampleUser == ProviderUser("u1", Some(EmailA), EmptyMetadata)

\* what the example maps to
ExampleAppUser ==
    [id |-> "u1", email |-> EmailA, password |-> "", fullName |-> <<"a">>,
     companyName |-> "", role |-> "Member", permissions |-> <<>>]

\* the application user a has the company name and the permissions of the
\* provider user u, or "" and the empty list where u has none
CompanyAndPermissionsOf(a, u) ==
    /\ a.companyName = IF Meta(u, "company_name") = None
                       THEN "" ELSE Meta(u, "company_name").v
    /\ a.permissions = IF Meta(u, "permissions") = None
                       THEN <<>> ELSE Meta(u, "permissions").v

\* C8 as stated: the fetch path and the event path apply the same mapping;
\* both give an application user with the provider's id and email, the
\* metadata company name or "", the metadata permissions or the empty list,
\* and both store the provider user; the example maps as written.
C8_SameMappingAsStated ==
    /\ \A u \in ProviderUsers : AppUserFromFetch(u) = AppUserFromEvent(u)
    /\ (ReportProcessed /\ last.session # None)
        => /\ supabaseUser = last.session
           /\ user # None
           /\ user.v.id = last.session.v.id
           /\ Some(user.v.email) = last.session.v.email
           /\ CompanyAndPermissionsOf(user.v, last.session.v)
           /\ last.session.v = ExampleUser => user.v = ExampleAppUser

\* C8 amended: as stated, with the email equal to the provider's or "" when
\* the provider user has no email.
C8_SameMapping ==
    /\ \A u \in ProviderUsers : AppUserFromFetch(u) = AppUserFromEvent(u)
    /\ (ReportProcessed /\ last.session # None)
        => /\ supabaseUser = last.session
           /\ user # None
           /\ user.v.id = last.session.v.id
           /\ \/ Some(user.v.email) = last.session.v.email
              \/ last.session.v.email = None /\ user.v.email = <<>>
           /\ CompanyAndPermissionsOf(user.v, last.session.v)
           /\ last.session.v = ExampleUser => user.v = ExampleAppUser

\* a change event has delivered a user without an email after the fetch had
\* resolved, and the application user's email is empty
C8_Witness ==
    /\ ReportProcessed
    /\ last.op = "emit"
    /\ fetch = "resolved"
    /\ last.session # None
    /\ last.session.v.email = None
    /\ user.v.email = <<>>
    /\ supabaseUser = last.session

\* C9: between mount and teardown exactly one subscription is active; after
\* teardown it has been released exactly once, and a change event emitted
\* after that runs no listener and changes none of user, supabaseUser and
\* isLoading.
C9_SubscriptionReleased ==
    /\ [](/\ phase = "rendered" => (subs = 0 /\ released = 0)
          /\ phase = "mounted" => (subs = 1 /\ released = 0)
          /\ phase = "unmounted" => (subs = 0 /\ released = 1 /\ ~Delivers)
          /\ (phase = "unmounted" /\ last.op = "emit") => ~last.ran)
    /\ [][(phase = "unmounted" /\ emitted' # emitted)
            => UNCHANGED <<user, supabaseUser, isLoading, value>>]_vars

\* a change event has been emitted after teardown
C9_Witness ==
    /\ phase = "unmounted"
    /\ last.op = "emit"
    /\ last.session # None
    /\ released = 1

\* C10: in every state, isAuthenticated is true if and only if the
\* application user is present.
C10_AuthenticatedIffUser ==
    /\ value.user = user
    /\ value.isAuthenticated <=> (user # None)

\* isAuthenticated is true with an application user present and the
\* provider user absent
C10_Witness ==
    /\ value.isAuthenticated
    /\ user # None
    /\ supabaseUser = None

\* the metadata of provider user u carries a password
HasPasswordInMetadata(u) ==
    /\ u.user_metadata.some
    /\ "password" \in DOMAIN u.user_metadata.v

\* C11: in every state in which the application user is present, its
\* password is the empty string, whatever the provider user and its metadata
\* hold.
C11_PasswordEmpty ==
    /\ user # None => user.v.password = ""
    /\ value.user # None => value.user.v.password = ""

\* the application user is present and its provider user has a password in
\* its metadata
C11_Witness ==
    /\ user # None
    /\ supabaseUser # None
    /\ HasPasswordInMetadata(supabaseUser.v)
    /\ user.v.id = supabaseUser.v.id
    /\ user.v.password = ""

\* the application user the path of the last report maps provider user u to
MappedByLastReport(u) ==
    IF last.op = "fetch" THEN AppUserFromFetch(u) ELSE AppUserFromEvent(u)

\* C12: in whatever order the fetch resolution and the change events are
\* processed, user and supabaseUser are determined by the report processed
\* last alone: the mapped user and the provider user of its session when it
\* carries one, both absent when it carries none.
C12_LastWriteWins ==
    ReportProcessed
        => IF last.session # None
           THEN /\ user = Some(MappedByLastReport(last.session.v))
                /\ supabaseUser = last.session
           ELSE /\ user = None
                /\ supabaseUser = None

\* C13: a failed startup fetch, whether the provider answers with an error
\* beside an absent user or its call rejects, leaves the signed-out state
\* with loading finished: user absent, supabaseUser absent, isLoading false.
C13_FailedFetchIsSignedOut ==
    (/\ phase = "mounted"
     /\ \/ last.op = "fetchReject"
        \/ last.op = "fetch" /\ last.session = None)
        => /\ user = None
           /\ supabaseUser = None
           /\ ~isLoading
           /\ ~value.isLoading

\* C14: when a signIn or signOut call ends, its provider call having
\* succeeded, answered with an error or failed, isLoading is false.
C14_LoadingFalseAtEnd ==
    (/\ phase = "mounted"
     /\ last.op \in {"signInReturn", "signInThrow",
                     "signOutReturn", "signOutThrow"})
        => (~isLoading /\ ~value.isLoading)

\* C16: in every state the application user is present if and only if
\* supabaseUser is present, and when both are present they have the same id.
C16_UsersConsistent ==
    /\ (user # None) <=> (supabaseUser # None)
    /\ (user # None /\ supabaseUser # None) => user.v.id = supabaseUser.v.id

\* C15: when the component is torn down before the startup fetch resolves,
\* the later resolution of the fetch, which is not cancelled, leaves user,
\* supabaseUser and isLoading unchanged.
C15_LateFetchSuppressed ==
    [][(phase = "unmounted" /\ fetch = "pending" /\ fetch' = "resolved")
        => UNCHANGED <<user, supabaseUser, isLoading, value>>]_vars

\* the fetch has resolved with a user after teardown, and the state is
\* still the one of a component that has seen no report
C15_Witness ==
    /\ phase = "unmounted"
    /\ last.op = "fetch"
    /\ last.session # None
    /\ emitted = 0
    /\ user = None
    /\ supabaseUser = None
    /\ isLoading

\* C17 as stated: once a signOut call has finished, isAuthenticated stays
\* false until a change event carries a session; a startup fetch that
\* resolves after the signOut does not make the user present.
C17_SignedOutUntilEventAsStated ==
    sinceSignOut \in {"quiet", "fetched"} => ~value.isAuthenticated

\* C17 amended: once a signOut call has finished, isAuthenticated stays
\* false until a report carries a session, be it a change event or the
\* resolution of the startup fetch.
C17_SignedOutUntilReport ==
    sinceSignOut = "quiet" => (user = None /\ ~value.isAuthenticated)

\* a signOut has finished, and the startup fetch has resolved after it
\* without a user
C17_Witness ==
    /\ sinceSignOut = "quiet"
    /\ signOutCalls > 0
    /\ last.op = "fetch"
    /\ last.session = None
    /\ phase = "mounted"
    /\ ~value.isAuthenticated

\* the step is one of a signIn call: its start or its end
SignInStep ==
    \/ signInCalls' # signInCalls
    \/ pendingSignIn' # pendingSignIn

\* C18: signIn writes neither user nor supabaseUser: from its start to its
\* end, on success and on failure, isLoading is the only state it changes,
\* and the user becomes present only by a report that carries a session.
C18_SignInWritesOnlyLoading ==
    /\ [][SignInStep
            => /\ UNCHANGED <<user, supabaseUser>>
               /\ value'.user = value.user
               /\ value'.supabaseUser = value.supabaseUser
               /\ value'.isAuthenticated = value.isAuthenticated]_vars
    /\ [][(user = None /\ user' # None)
            => (last'.op \in {"fetch", "emit"} /\ last'.session # None)]_vars

\* a signIn has returned an error while a user was present, and the user
\* is still there
C18_Witness ==
    /\ last.op = "signInReturn"
    /\ last.error # None
    /\ last.had
    /\ phase = "mounted"
    /\ user # None
    /\ value.isAuthenticated

\* C19: useAuth() called with no enclosing AuthProvider fails with the error
\* 'useAuth must be used within an AuthProvider'; called inside an
\* AuthProvider it returns the provider's current value.
C19_UseAuthNeedsProvider ==
    /\ last.op = "useAuthOutside"
        => (last.ret = None /\ last.error = Some(UseAuthMessage))
    /\ last.op = "useAuthInside"
        => (last.ret = Some(value) /\ last.error = None)

====
